---- MODULE Spec2Model ----
(***************************************************************************)
(* Model of the Llama inference calculator component                       *)
(* (src/src/llama_inference_calculator.tsx, mounted by main.tsx).          *)
(*                                                                         *)
(* The component keeps two pieces of React state, config and results.      *)
(* handleInputChange replaces one field of config; the effect registered   *)
(* with useEffect(..., [config]) then runs calculateInference, which       *)
(* derives every quantity from config and stores the formatted record with *)
(* setResults.                                                             *)
(*                                                                         *)
(* JavaScript numbers are modelled as exact rationals extended with the    *)
(* IEEE-754 special values NaN, +Infinity, -Infinity and the signed zero;  *)
(* rounding of the binary64 significand is not modelled.  Numerators and   *)
(* denominators exceed 32 bits, so they are kept as sequences of limbs.    *)
(***************************************************************************)
EXTENDS Integers, Sequences, FiniteSets, TLC

(***************************************************************************)
(* Natural numbers of arbitrary size: little-endian sequences of limbs in  *)
(* 0..Base-1 without leading zero limbs; <<>> is zero.                     *)
(***************************************************************************)
Base == 10 ^ 4

RECURSIVE NNorm(_)
NNorm(a) ==
  IF a = <<>> THEN <<>>
  ELSE IF a[Len(a)] = 0 THEN NNorm(SubSeq(a, 1, Len(a) - 1))
  ELSE a

RECURSIVE NFromInt(_)
NFromInt(k) ==
  IF k = 0 THEN <<>> ELSE <<k % Base>> \o NFromInt(k \div Base)

RECURSIVE NToInt(_)
NToInt(a) ==
  IF a = <<>> THEN 0 ELSE Head(a) + Base * NToInt(Tail(a))

NHead(a) == IF a = <<>> THEN 0 ELSE Head(a)
NTail(a) == IF a = <<>> THEN <<>> ELSE Tail(a)

RECURSIVE NAddC(_, _, _)
NAddC(a, b, c) ==
  IF a = <<>> /\ b = <<>> THEN (IF c = 0 THEN <<>> ELSE <<c>>)
  ELSE IF b = <<>> /\ c = 0 THEN a
  ELSE IF a = <<>> /\ c = 0 THEN b
  ELSE LET x == NHead(a) + NHead(b) + c
       IN  <<x % Base>> \o NAddC(NTail(a), NTail(b), x \div Base)

NAdd(a, b) == NAddC(a, b, 0)

\* a - b for a >= b, before normalisation
RECURSIVE NSubB(_, _, _)
NSubB(a, b, w) ==
  IF a = <<>> THEN <<>>
  ELSE IF b = <<>> /\ w = 0 THEN a
  ELSE LET x == Head(a) - NHead(b) - w
       IN  IF x < 0 THEN <<x + Base>> \o NSubB(Tail(a), NTail(b), 1)
           ELSE <<x>> \o NSubB(Tail(a), NTail(b), 0)

NSub(a, b) == NNorm(NSubB(a, b, 0))

RECURSIVE NMulSmallC(_, _, _)
NMulSmallC(a, k, c) ==
  IF a = <<>> THEN (IF c = 0 THEN <<>> ELSE <<c>>)
  ELSE LET x == Head(a) * k + c
       IN  <<x % Base>> \o NMulSmallC(Tail(a), k, x \div Base)

NMulSmall(a, k) == IF k = 0 THEN <<>> ELSE NMulSmallC(a, k, 0)

NShift(a) == IF a = <<>> THEN <<>> ELSE <<0>> \o a

RECURSIVE NMul(_, _)
NMul(a, b) ==
  IF a = <<>> \/ b = <<>> THEN <<>>
  ELSE IF Len(b) > Len(a) THEN NMul(b, a)
  ELSE IF Len(b) = 1 THEN NMulSmallC(a, Head(b), 0)
  ELSE NAdd(NMulSmall(a, Head(b)), NShift(NMul(a, Tail(b))))

\* -1, 0, 1 as a < b, a = b, a > b, comparing from limb i downwards
RECURSIVE NCmpAt(_, _, _)
NCmpAt(a, b, i) ==
  IF i = 0 THEN 0
  ELSE IF a[i] < b[i] THEN -1
  ELSE IF a[i] > b[i] THEN 1
  ELSE NCmpAt(a, b, i - 1)

NCmp(a, b) ==
  IF Len(a) < Len(b) THEN -1
  ELSE IF Len(a) > Len(b) THEN 1
  ELSE NCmpAt(a, b, Len(a))

\* the largest k in lo..hi with b * k <= r  (b * lo <= r is given)
RECURSIVE NDigit(_, _, _, _)
NDigit(r, b, lo, hi) ==
  IF lo = hi THEN lo
  ELSE LET mid == (lo + hi + 1) \div 2
       IN  IF NCmp(NMulSmall(b, mid), r) <= 0
           THEN NDigit(r, b, mid, hi)
           ELSE NDigit(r, b, lo, mid - 1)

\* an estimate of the quotient digit of r by b from their leading limbs, for
\* r < b * Base and a leading limb of b of at least Base \div 2: the digit
\* is at most the estimate and at least the estimate - 2
NEstimate(r, b) ==
  LET top == IF Len(r) > Len(b) THEN r[Len(b) + 1] * Base + r[Len(b)] ELSE r[Len(b)]
      e == top \div b[Len(b)]
  IN  IF e > Base - 1 THEN Base - 1 ELSE e

\* long division of a[1..i] (most significant limb first) by b, whose
\* leading limb is at least Base \div 2
RECURSIVE NDivStep(_, _, _, _, _)
NDivStep(a, b, i, r, q) ==
  IF i = 0 THEN [q |-> NNorm(q), r |-> r]
  ELSE LET r1 == NNorm(<<a[i]>> \o r)
           e  == NEstimate(r1, b)
           k  == IF NCmp(r1, b) < 0 THEN 0
                 ELSE NDigit(r1, b, IF e > 3 THEN e - 2 ELSE 1, e)
       IN  NDivStep(a, b, i - 1, NSub(r1, NMulSmall(b, k)), <<k>> \o q)

\* quotient q of a by b # 0, and in r a multiple of the remainder: both are
\* scaled first, so that the leading limb of the divisor is large
NDivMod(a, b) ==
  LET f  == Base \div (b[Len(b)] + 1)
      af == NMulSmall(a, f)
  IN  NDivStep(af, NMulSmall(b, f), Len(af), <<>>, <<>>)

NDiv(a, b) == NDivMod(a, b).q

\* limbs 1..i of the quotient of a by k in 1..Base-1, rem being what the
\* limbs above i left over
RECURSIVE NDivSmallAt(_, _, _, _)
NDivSmallAt(a, k, i, rem) ==
  IF i = 0 THEN <<>>
  ELSE LET cur == rem * Base + a[i]
       IN  Append(NDivSmallAt(a, k, i - 1, cur % k), cur \div k)

NDivSmall(a, k) == NNorm(NDivSmallAt(a, k, Len(a), 0))

\* 10^e as limbs, for any e >= 0
RECURSIVE NPow10Big(_)
NPow10Big(e) == IF e < 4 THEN NFromInt(10 ^ e) ELSE <<0>> \o NPow10Big(e - 4)

(***************************************************************************)
(* JavaScript numbers.  A number is [s, n, d]: sign s in {1, -1} and the   *)
(* magnitude n/d.  d = <<>> marks the special values: n = <<>> is NaN, any *)
(* other n is the infinity of sign s.  n = <<>> with d # <<>> is the zero  *)
(* of sign s.  The pair n, d is not kept in lowest terms: numbers are      *)
(* compared with JsEq and JsLt, never with =.                              *)
(***************************************************************************)
JsNaN == [s |-> 1, n |-> <<>>, d |-> <<>>]
JsInf(sg) == [s |-> sg, n |-> <<1>>, d |-> <<>>]
JsZero(sg) == [s |-> sg, n |-> <<>>, d |-> <<1>>]

IsNaN(x) == x.d = <<>> /\ x.n = <<>>
IsInf(x) == x.d = <<>> /\ x.n # <<>>
IsFinite(x) == x.d # <<>>
IsZero(x) == x.d # <<>> /\ x.n = <<>>

RECURSIVE Gcd(_, _)
Gcd(a, b) == IF b = 0 THEN a ELSE Gcd(b, a % b)

\* drop the factors that numerator and denominator share with Base: a
\* divisor of Base divides a number exactly if it divides its lowest limb
RECURSIVE JsStrip(_, _, _)
JsStrip(sg, n, d) ==
  IF n = <<>> THEN [s |-> sg, n |-> n, d |-> <<1>>]
  ELSE IF Len(d) > 1 /\ Head(n) = 0 /\ Head(d) = 0
       THEN JsStrip(sg, Tail(n), Tail(d))
  ELSE LET f == Gcd(Base, Gcd(Head(n), Head(d)))
       IN  IF f = 1 THEN [s |-> sg, n |-> n, d |-> d]
           ELSE JsStrip(sg, NDivSmall(n, f), NDivSmall(d, f))

\* the integer k
JsInt(k) == [s |-> IF k < 0 THEN -1 ELSE 1,
             n |-> NFromInt(IF k < 0 THEN -k ELSE k), d |-> <<1>>]
\* the decimal literal m * 10^-k, m >= 0
JsDec(m, k) == JsStrip(1, NFromInt(m), NPow10Big(k))
\* the literal 1eE
JsE(e) == [s |-> 1, n |-> NPow10Big(e), d |-> <<1>>]

JsNeg(x) == IF IsNaN(x) THEN x ELSE [x EXCEPT !.s = -x.s]

JsMul(x, y) ==
  IF IsNaN(x) \/ IsNaN(y) THEN JsNaN
  ELSE IF IsInf(x) \/ IsInf(y)
       THEN (IF IsZero(x) \/ IsZero(y) THEN JsNaN ELSE JsInf(x.s * y.s))
  ELSE JsStrip(x.s * y.s, NMul(x.n, y.n), NMul(x.d, y.d))

JsDiv(x, y) ==
  IF IsNaN(x) \/ IsNaN(y) THEN JsNaN
  ELSE IF IsInf(x) THEN (IF IsInf(y) THEN JsNaN ELSE JsInf(x.s * y.s))
  ELSE IF IsInf(y) THEN JsZero(x.s * y.s)
  ELSE IF IsZero(y) THEN (IF IsZero(x) THEN JsNaN ELSE JsInf(x.s * y.s))
  ELSE JsStrip(x.s * y.s, NMul(x.n, y.d), NMul(x.d, y.n))

JsAdd(x, y) ==
  IF IsNaN(x) \/ IsNaN(y) THEN JsNaN
  ELSE IF IsInf(x) THEN (IF IsInf(y) /\ x.s # y.s THEN JsNaN ELSE x)
  ELSE IF IsInf(y) THEN y
  ELSE IF IsZero(x) /\ IsZero(y) THEN JsZero(IF x.s = y.s THEN x.s ELSE 1)
  ELSE LET a == NMul(x.n, y.d)
           b == NMul(y.n, x.d)
           d == NMul(x.d, y.d)
           c == NCmp(a, b)
       IN  IF x.s = y.s THEN JsStrip(x.s, NAdd(a, b), d)
           ELSE IF c = 0 THEN JsZero(1)
           ELSE IF c > 0 THEN JsStrip(x.s, NSub(a, b), d)
           ELSE JsStrip(y.s, NSub(b, a), d)

JsSub(x, y) == JsAdd(x, JsNeg(y))

\* x === y
JsEq(x, y) ==
  IF IsNaN(x) \/ IsNaN(y) THEN FALSE
  ELSE IF IsInf(x) \/ IsInf(y) THEN IsInf(x) /\ IsInf(y) /\ x.s = y.s
  ELSE IF IsZero(x) \/ IsZero(y) THEN IsZero(x) /\ IsZero(y)
  ELSE x.s = y.s /\ NCmp(NMul(x.n, y.d), NMul(y.n, x.d)) = 0

\* x < y
JsLt(x, y) ==
  IF IsNaN(x) \/ IsNaN(y) THEN FALSE
  ELSE IF IsInf(x) THEN x.s = -1 /\ ~(IsInf(y) /\ y.s = -1)
  ELSE IF IsInf(y) THEN y.s = 1
  ELSE IF IsZero(x) THEN ~IsZero(y) /\ y.s = 1
  ELSE IF IsZero(y) THEN x.s = -1
  ELSE IF x.s # y.s THEN x.s = -1
  ELSE LET c == NCmp(NMul(x.n, y.d), NMul(y.n, x.d))
       IN  IF x.s = 1 THEN c < 0 ELSE c > 0

JsLe(x, y) == JsLt(x, y) \/ JsEq(x, y)

\* Math.floor(x)
MathFloor(x) ==
  IF ~IsFinite(x) \/ IsZero(x) THEN x
  ELSE LET qr == NDivMod(x.n, x.d)
       IN  IF x.s = 1 THEN [s |-> 1, n |-> qr.q, d |-> <<1>>]
           ELSE IF qr.r = <<>> THEN [s |-> -1, n |-> qr.q, d |-> <<1>>]
           ELSE [s |-> -1, n |-> NAdd(qr.q, <<1>>), d |-> <<1>>]

\* Math.min(x, y): NaN if either is NaN, and -0 is below +0
MathMin(x, y) ==
  IF IsNaN(x) \/ IsNaN(y) THEN JsNaN
  ELSE IF JsLt(x, y) THEN x
  ELSE IF JsLt(y, x) THEN y
  ELSE IF IsZero(x) /\ x.s = -1 THEN x
  ELSE y

(***************************************************************************)
(* Number.prototype.toFixed(k): the decimal string with k fraction digits, *)
(* rounding half away from zero; "NaN", "Infinity", "-Infinity" for the    *)
(* special values.  The string is modelled by its parts: text names the    *)
(* form, neg tells whether it starts with "-" (x < 0, so never for -0),    *)
(* digits is the digit string read as a natural number without the point.  *)
(***************************************************************************)
ToFixed(x, k) ==
  IF IsNaN(x) THEN [text |-> "NaN", neg |-> FALSE, digits |-> <<>>, places |-> k]
  ELSE IF IsInf(x)
       THEN [text |-> IF x.s = 1 THEN "Infinity" ELSE "-Infinity",
             neg |-> x.s = -1, digits |-> <<>>, places |-> k]
  ELSE [text |-> "fixed",
        neg |-> x.s = -1 /\ ~IsZero(x),
        digits |-> NDiv(NAdd(NMulSmall(NMul(x.n, NPow10Big(k)), 2), x.d),
                        NMulSmall(x.d, 2)),
        places |-> k]

\* an integral number stored as such in React state: the special values by
\* name, an integer by its sign and its magnitude (a natural number)
NumberValue(x) ==
  IF IsNaN(x) THEN [kind |-> "NaN", sign |-> 1, abs |-> <<>>]
  ELSE IF IsInf(x) THEN [kind |-> "Infinity", sign |-> x.s, abs |-> <<>>]
  ELSE [kind |-> "finite", sign |-> x.s, abs |-> NDiv(x.n, x.d)]

(***************************************************************************)
(* Strings that reach handleInputChange are sequences of characters, so    *)
(* that parseFloat can be modelled by what it does to them.                *)
(***************************************************************************)
DigitChars == <<"0", "1", "2", "3", "4", "5", "6", "7", "8", "9">>
IsDigit(ch) == \E k \in 1..10 : DigitChars[k] = ch
DigitVal(ch) == (CHOOSE k \in 1..10 : DigitChars[k] = ch) - 1
At(str, i) == IF i <= Len(str) THEN str[i] ELSE "<end>"

\* the index after the run of digits of str that starts at i
RECURSIVE DigitsEnd(_, _)
DigitsEnd(str, i) == IF IsDigit(At(str, i)) THEN DigitsEnd(str, i + 1) ELSE i

\* the digits str[i..j-1] read as a natural number, appended to acc
RECURSIVE DigitsVal(_, _, _, _)
DigitsVal(str, i, j, acc) ==
  IF i >= j THEN acc
  ELSE DigitsVal(str, i + 1, j, NAdd(NMulSmall(acc, 10), NFromInt(DigitVal(str[i]))))

RECURSIVE SkipSpace(_, _)
SkipSpace(str, i) == IF At(str, i) = " " THEN SkipSpace(str, i + 1) ELSE i

\* m * 10^e with m, e reduced so that the result is the same record for the
\* same value
RECURSIVE JsScaled(_, _, _)
JsScaled(sg, m, e) ==
  IF m = <<>> THEN JsZero(sg)
  ELSE IF e < 0 /\ Head(m) % 10 = 0 THEN JsScaled(sg, NDiv(m, <<10>>), e + 1)
  ELSE IF e >= 0 THEN [s |-> sg, n |-> NMul(m, NPow10Big(e)), d |-> <<1>>]
  ELSE [s |-> sg, n |-> m, d |-> NPow10Big(-e)]

InfinityChars == <<"I", "n", "f", "i", "n", "i", "t", "y">>

\* parseFloat(str): the longest prefix of the trimmed string that is a
\* decimal literal (sign, digits, fraction, exponent, or Infinity), else NaN
ParseFloat(str) ==
  LET i0 == SkipSpace(str, 1)
      sg == IF At(str, i0) = "-" THEN -1 ELSE 1
      i1 == IF At(str, i0) \in {"+", "-"} THEN i0 + 1 ELSE i0
      i2 == DigitsEnd(str, i1)
      i3 == IF At(str, i2) = "." THEN DigitsEnd(str, i2 + 1) ELSE i2
      nInt == i2 - i1
      nFrac == IF i3 > i2 THEN i3 - i2 - 1 ELSE 0
      m == DigitsVal(str, i2 + 1, i3, DigitsVal(str, i1, i2, <<>>))
      x0 == IF At(str, i3) \in {"e", "E"} THEN i3 + 1 ELSE 0
      xs == IF x0 > 0 /\ At(str, x0) = "-" THEN -1 ELSE 1
      x1 == IF x0 > 0 /\ At(str, x0) \in {"+", "-"} THEN x0 + 1 ELSE x0
      x2 == IF x0 > 0 THEN DigitsEnd(str, x1) ELSE x1
      ex == IF x0 > 0 /\ x2 > x1 THEN xs * NToInt(DigitsVal(str, x1, x2, <<>>)) ELSE 0
  IN  IF Len(str) >= i1 + 7 /\ SubSeq(str, i1, i1 + 7) = InfinityChars THEN JsInf(sg)
      ELSE IF nInt + nFrac = 0 THEN JsNaN
      ELSE JsScaled(sg, m, ex - nFrac)

\* the parsed number is stored as it is, without `|| 0`
OrZero_KeepsNaN(x) == x

\* x || 0 for a number x: NaN, +0 and -0 are falsy
OrZero(x) == IF IsNaN(x) \/ IsZero(x) THEN JsZero(1) ELSE x

MaxChanges == 2

(***************************************************************************)
(* The component.                                                          *)
(***************************************************************************)
VARIABLES
  config,          \* useState<InferenceConfig>
  results,         \* useState<InferenceResults | null>
  pendingEffects,  \* runs of the [config] effect that React still owes
  outcome,         \* how the latest calculateInference call ended
  changes,         \* handleInputChange calls so far
  firstResults     \* history: what the first calculateInference call stored

vars == <<config, results, pendingEffects, outcome, changes, firstResults>>

A100 == <<"A", "1", "0", "0", "-", "8", "0", "G", "B">>
H100 == <<"H", "1", "0", "0", "-", "8", "0", "G", "B">>
\* a string that is no key of gpuSpecs
V100 == <<"V", "1", "0", "0", "-", "3", "2", "G", "B">>

gpuSpecs ==
  [k \in {A100, H100} |->
     IF k = A100
     THEN [memory |-> JsInt(80),
           memoryBandwidth |-> JsDec(20, 1),
           memoryBandwidthEffective |-> JsDec(13, 1),
           computeThroughput |-> JsInt(312),
           computeThroughputEffective |-> JsInt(200)]
     ELSE [memory |-> JsInt(80),
           memoryBandwidth |-> JsDec(335, 2),
           memoryBandwidthEffective |-> JsDec(22, 1),
           computeThroughput |-> JsInt(989),
           computeThroughputEffective |-> JsInt(630)]]

InitialConfig ==
  [modelSize |-> JsInt(70),
   sequenceLength |-> JsInt(2048),
   batchSize |-> JsInt(1),
   numGpus |-> JsInt(2),
   gpuType |-> A100,
   precision |-> JsInt(16),
   gpuCostPerHour |-> JsDec(221, 2),
   promptTokens |-> JsInt(1000),
   completionTokens |-> JsInt(500)]

Null == [isNull |-> TRUE]

(***************************************************************************)
(* calculateInference, one definition per const of the function body.  c   *)
(* is the config the call destructures and gpu the profile it looked up;   *)
(* the consts computed late take the earlier consts they read as           *)
(* parameters, so that one call computes each of them once.                *)
(***************************************************************************)
\* the bits are not converted to bytes
modelWeightsGB_Bits(c) == JsMul(c.modelSize, c.precision)

modelWeightsGB(c) == JsDiv(JsMul(c.modelSize, c.precision), JsInt(8))

\* every model has the per-token cache of the 70B one
kvCachePerTokenMB_SameForAll(c) == JsDec(41, 2)

kvCachePerTokenMB(c) ==
  IF JsEq(c.modelSize, JsInt(70)) THEN JsDec(41, 2)
  ELSE JsMul(JsDiv(c.modelSize, JsInt(70)), JsDec(41, 2))

\* the cache is divided by the batch size instead of multiplied
kvCacheTotalGB_DividesByBatch(c) ==
  JsDiv(JsDiv(JsMul(kvCachePerTokenMB(c), c.sequenceLength), c.batchSize), JsInt(1024))

kvCacheTotalGB(c) ==
  JsDiv(JsMul(JsMul(kvCachePerTokenMB(c), c.sequenceLength), c.batchSize), JsInt(1024))

\* the KV cache is left out of the total
totalMemoryGB_WeightsOnly(c) == modelWeightsGB(c)

totalMemoryGB(c) == JsAdd(modelWeightsGB(c), kvCacheTotalGB(c))

totalGpuMemory(c, gpu) == JsMul(gpu.memory, c.numGpus)

memoryUtilization(c, gpu) ==
  JsMul(JsDiv(totalMemoryGB(c), totalGpuMemory(c, gpu)), JsInt(100))

flopsPerToken(c) == JsMul(JsMul(JsInt(2), c.modelSize), JsE(9))

\* the prompt work is counted once per sequence of the batch
promptFlops_TimesBatch(c) ==
  JsMul(JsMul(flopsPerToken(c), c.promptTokens), c.batchSize)

promptFlops(c) == JsMul(flopsPerToken(c), c.promptTokens)

totalComputeThroughput(c, gpu) ==
  JsMul(JsMul(gpu.computeThroughputEffective, c.numGpus), JsE(12))

\* the bandwidth of one device, whatever numGpus is
totalMemoryBandwidth_OneGpu(c, gpu) ==
  JsMul(gpu.memoryBandwidthEffective, JsE(12))

totalMemoryBandwidth(c, gpu) ==
  JsMul(JsMul(gpu.memoryBandwidthEffective, c.numGpus), JsE(12))

promptProcessingTime(c, gpu) == JsDiv(promptFlops(c), totalComputeThroughput(c, gpu))

promptTokensPerSecond(c, gpu) == JsDiv(c.promptTokens, promptProcessingTime(c, gpu))

memoryPerToken(c) ==
  JsAdd(JsMul(modelWeightsGB(c), JsE(9)),
        JsMul(JsMul(kvCachePerTokenMB(c), c.batchSize), JsE(6)))

generationTokensPerSecond(c, gpu) ==
  JsMul(JsDiv(totalMemoryBandwidth(c, gpu), memoryPerToken(c)), c.batchSize)

completionTime(c, genTokensPerSecond) ==
  JsDiv(c.completionTokens, genTokensPerSecond)

totalTime(promptTime, complTime) == JsAdd(promptTime, complTime)

\* the hourly price of one device, whatever numGpus is
costPerSecond_OneGpu(c) == JsDiv(c.gpuCostPerHour, JsInt(3600))

costPerSecond(c) == JsDiv(JsMul(c.gpuCostPerHour, c.numGpus), JsInt(3600))

totalCost(perSecond, time) == JsMul(perSecond, time)

promptCostPer1k(c, perSecond, promptTime) ==
  JsDiv(JsMul(JsMul(perSecond, promptTime), JsInt(1000)), c.promptTokens)

completionCostPer1k(c, perSecond, complTime) ==
  JsDiv(JsMul(JsMul(perSecond, complTime), JsInt(1000)), c.completionTokens)

\* the free memory is divided by the cache of the whole configured batch
maxBatchSize_WholeBatchCache(c, gpu) ==
  MathFloor(JsDiv(JsSub(totalGpuMemory(c, gpu), modelWeightsGB(c)), kvCacheTotalGB(c)))

maxBatchSize(c, gpu) ==
  MathFloor(JsDiv(JsSub(totalGpuMemory(c, gpu), modelWeightsGB(c)),
                  JsDiv(kvCacheTotalGB(c), c.batchSize)))

\* the ceiling is 128
optimalBatchSize_Cap128(maxBatch) == MathMin(maxBatch, JsInt(128))

optimalBatchSize(maxBatch) == MathMin(maxBatch, JsInt(64))

gpt35PromptCost == JsDec(15, 4)
gpt35CompletionCost == JsDec(2, 3)

\* the percentage by which the own cost exceeds the reference price
promptSavings_CostIncrease(ownCostPer1k) ==
  JsMul(JsDiv(JsSub(ownCostPer1k, gpt35PromptCost), gpt35PromptCost), JsInt(100))

\* the expressions that the gpt35Comparison literal formats
promptSavings(ownCostPer1k) ==
  JsMul(JsDiv(JsSub(gpt35PromptCost, ownCostPer1k), gpt35PromptCost), JsInt(100))

completionSavings(ownCostPer1k) ==
  JsMul(JsDiv(JsSub(gpt35CompletionCost, ownCostPer1k), gpt35CompletionCost), JsInt(100))

\* the consts of one call
Derived(c, gpu) ==
  LET ppt  == promptProcessingTime(c, gpu)
      gen  == generationTokensPerSecond(c, gpu)
      ct   == completionTime(c, gen)
      tt   == totalTime(ppt, ct)
      cps  == costPerSecond(c)
      mb   == maxBatchSize(c, gpu)
  IN  [modelWeightsGB |-> modelWeightsGB(c),
       kvCacheTotalGB |-> kvCacheTotalGB(c),
       totalMemoryGB |-> totalMemoryGB(c),
       memoryUtilization |-> memoryUtilization(c, gpu),
       promptProcessingTime |-> ppt,
       promptTokensPerSecond |-> promptTokensPerSecond(c, gpu),
       generationTokensPerSecond |-> gen,
       completionTime |-> ct,
       totalTime |-> tt,
       totalCost |-> totalCost(cps, tt),
       promptCostPer1k |-> promptCostPer1k(c, cps, ppt),
       completionCostPer1k |-> completionCostPer1k(c, cps, ct),
       maxBatchSize |-> mb,
       optimalBatchSize |-> optimalBatchSize(mb)]

\* the object literal handed to setResults
ResultsRecord(v) ==
  [modelWeightsGB |-> ToFixed(v.modelWeightsGB, 1),
   kvCacheTotalGB |-> ToFixed(v.kvCacheTotalGB, 2),
   totalMemoryGB |-> ToFixed(v.totalMemoryGB, 1),
   memoryUtilization |-> ToFixed(v.memoryUtilization, 1),
   promptProcessingTime |-> ToFixed(JsMul(v.promptProcessingTime, JsInt(1000)), 0),
   completionTime |-> ToFixed(v.completionTime, 2),
   promptTokensPerSecond |-> ToFixed(v.promptTokensPerSecond, 0),
   generationTokensPerSecond |-> ToFixed(v.generationTokensPerSecond, 1),
   totalTime |-> ToFixed(v.totalTime, 2),
   totalCost |-> ToFixed(JsMul(v.totalCost, JsInt(1000)), 3),
   promptCostPer1k |-> ToFixed(v.promptCostPer1k, 4),
   completionCostPer1k |-> ToFixed(v.completionCostPer1k, 4),
   maxBatchSize |-> NumberValue(v.maxBatchSize),
   optimalBatchSize |-> NumberValue(v.optimalBatchSize),
   gpt35Comparison |->
     [promptSavings |->
        ToFixed(promptSavings(v.promptCostPer1k), 1),
      completionSavings |->
        ToFixed(completionSavings(v.completionCostPer1k), 1)]]

\* gpuSpecs[gpuType] || gpuSpecs['A100-80GB']: a default profile stands in
calculateInference_DefaultProfile(c) ==
  [threw |-> FALSE,
   results |-> ResultsRecord(Derived(c, IF c.gpuType \in DOMAIN gpuSpecs
                                        THEN gpuSpecs[c.gpuType]
                                        ELSE gpuSpecs[A100]))]

\* gpuSpecs[gpuType] is undefined for a key the table lacks, and the read of
\* gpu.memory then throws a TypeError before setResults is reached
calculateInference(c) ==
  IF c.gpuType \in DOMAIN gpuSpecs
  THEN [threw |-> FALSE, results |-> ResultsRecord(Derived(c, gpuSpecs[c.gpuType]))]
  ELSE [threw |-> TRUE, results |-> Null]

Init ==
  /\ config = InitialConfig
  /\ results = Null
  /\ pendingEffects \in {1, 2}
  /\ outcome = "none"
  /\ changes = 0
  /\ firstResults = Null

\* the effect keeps the largest optimalBatchSize it has stored so far
UseEffect_KeepsLargestOptimal ==
  /\ pendingEffects > 0
  /\ outcome # "TypeError"
  /\ \E r \in {calculateInference(config)} :
       IF r.threw
       THEN outcome' = "TypeError" /\ UNCHANGED <<results, firstResults>>
       ELSE \E kept \in {IF /\ results # Null
                            /\ results.optimalBatchSize.kind = "finite"
                            /\ r.results.optimalBatchSize.kind = "finite"
                            /\ results.optimalBatchSize.sign = 1
                            /\ r.results.optimalBatchSize.sign = 1
                            /\ NCmp(results.optimalBatchSize.abs,
                                    r.results.optimalBatchSize.abs) > 0
                         THEN [r.results EXCEPT !.optimalBatchSize = results.optimalBatchSize]
                         ELSE r.results} :
              /\ outcome' = "stored"
              /\ results' = kept
              /\ firstResults' = IF firstResults = Null THEN kept ELSE firstResults
  /\ pendingEffects' = pendingEffects - 1
  /\ UNCHANGED <<config, changes>>

\* useEffect(() => { calculateInference(); }, [config]).  React runs the
\* effect after the render that follows a change of config; under StrictMode
\* a development build runs it twice on mount.  An error thrown by the effect
\* unmounts the component, so nothing runs after it.
UseEffect ==
  /\ pendingEffects > 0
  /\ outcome # "TypeError"
  /\ \E r \in {calculateInference(config)} :
       IF r.threw
       THEN outcome' = "TypeError" /\ UNCHANGED <<results, firstResults>>
       ELSE /\ outcome' = "stored"
            /\ results' = r.results
            /\ firstResults' = IF firstResults = Null THEN r.results ELSE firstResults
  /\ pendingEffects' = pendingEffects - 1
  /\ UNCHANGED <<config, changes>>

\* the field is assigned on the object that config already holds, so React
\* sees the same reference and the [config] effect does not run
handleInputChange_MutatesInPlace(field, value) ==
  /\ pendingEffects = 0
  /\ outcome # "TypeError"
  /\ changes < MaxChanges
  /\ config' = [config EXCEPT ![field] =
                  IF field = "gpuType" THEN value ELSE OrZero(ParseFloat(value))]
  /\ changes' = changes + 1
  /\ UNCHANGED <<results, outcome, firstResults, pendingEffects>>

\* handleInputChange(field, value): setConfig(prev => ({...prev, [field]: ...}))
\* puts a new object into config, so the [config] effect runs again
handleInputChange(field, value) ==
  /\ pendingEffects = 0
  /\ outcome # "TypeError"
  /\ changes < MaxChanges
  /\ config' = [config EXCEPT ![field] =
                  IF field = "gpuType" THEN value ELSE OrZero(ParseFloat(value))]
  /\ pendingEffects' = 1
  /\ changes' = changes + 1
  /\ UNCHANGED <<results, outcome, firstResults>>

\* the values e.target.value takes in each rendered control: a select yields
\* the value of one of its options, a number input the empty string or a
\* floating-point literal (min, max and step do not restrict typed text)
NumberInputValues ==
  {<<>>, <<"0">>, <<"-", "1">>, <<"1">>, <<"4">>, <<"2", "5", "6">>}

\* the Batch Size input also takes typed text that is no whole number
BatchInputValues == NumberInputValues \cup {<<"2", "4", ".", "2">>}

\* the GPU Cost input (step 0.1) also takes a typed price with decimals
CostInputValues == NumberInputValues \cup {<<"7", ".", "7", "1", "2">>}

\* the GPU Type select offers an option that gpuSpecs has no entry for
ControlValues_ExtraGpuOption ==
  [modelSize |-> {<<"7">>, <<"1", "3">>, <<"7", "0">>},
   gpuType |-> {A100, H100, V100},
   precision |-> {<<"8">>, <<"1", "6">>, <<"3", "2">>},
   numGpus |-> NumberInputValues,
   batchSize |-> BatchInputValues,
   sequenceLength |-> NumberInputValues,
   promptTokens |-> NumberInputValues,
   completionTokens |-> NumberInputValues,
   gpuCostPerHour |-> CostInputValues]

ControlValues ==
  [modelSize |-> {<<"7">>, <<"1", "3">>, <<"7", "0">>},
   gpuType |-> {A100, H100},
   precision |-> {<<"8">>, <<"1", "6">>, <<"3", "2">>},
   numGpus |-> NumberInputValues,
   batchSize |-> BatchInputValues,
   sequenceLength |-> NumberInputValues,
   promptTokens |-> NumberInputValues,
   completionTokens |-> NumberInputValues,
   gpuCostPerHour |-> CostInputValues]

Fields == DOMAIN ControlValues

\* onChange={(e) => handleInputChange(field, e.target.value)} of a control
OnChange == \E field \in Fields : \E value \in ControlValues[field] :
              handleInputChange(field, value)

Next == UseEffect \/ OnChange

Spec == Init /\ [][Next]_vars

\* a run of the effect as React's scheduler sees it: one owed run is taken.
\* Every UseEffect step is such a step, and no other step of Next is
RunEffect ==
  /\ pendingEffects > 0
  /\ outcome # "TypeError"
  /\ pendingEffects' = pendingEffects - 1
  /\ UNCHANGED <<config, changes>>

\* React runs a scheduled effect after the commit that scheduled it, and no
\* handler runs before it: an owed run of the effect is not postponed forever
FairSpec == Spec /\ WF_pendingEffects(RunEffect)

(***************************************************************************)
(* The same component with handleInputChange applied to any string, as its *)
(* signature (field: keyof InferenceConfig, value: string) allows; the     *)
(* cast `value as 'A100-80GB' | 'H100-80GB'` checks nothing at run time.   *)
(***************************************************************************)
AnyStrings ==
  {A100, V100, <<>>, <<"0">>, <<"-", "0">>, <<"a", "b", "c">>, <<"1", "3">>, <<"1", "3", "p", "x">>, <<"1", ".", "3", "e", "1">>, <<"2", ".", "5", "0">>, <<"-", "I", "n", "f", "i", "n", "i", "t", "y">>}

AnyCall == \E field \in Fields : \E value \in AnyStrings :
             handleInputChange(field, value)

NextAny == UseEffect \/ AnyCall

SpecAny == Init /\ [][NextAny]_vars

(***************************************************************************)
(* Vocabulary of the properties.                                           *)
(***************************************************************************)
KnownGpu(c) == c.gpuType \in DOMAIN gpuSpecs
Positive(x) == JsLt(JsZero(1), x)

CountFields ==
  {"modelSize", "sequenceLength", "batchSize", "numGpus", "promptTokens",
   "completionTokens"}

NonPositiveInput(c) == \E f \in CountFields : ~Positive(c[f])

\* every size and count positive, the cost not negative, the profile known
ValidConfig(c) ==
  /\ KnownGpu(c)
  /\ ~NonPositiveInput(c)
  /\ JsLe(JsZero(1), c.gpuCostPerHour)

\* the effect has run for the current config and stored its record
Settled == pendingEffects = 0 /\ outcome = "stored"

FixedFields ==
  {"modelWeightsGB", "kvCacheTotalGB", "totalMemoryGB", "memoryUtilization",
   "promptProcessingTime", "completionTime", "promptTokensPerSecond",
   "generationTokensPerSecond", "totalTime", "totalCost", "promptCostPer1k",
   "completionCostPer1k"}

AllFinite(r) ==
  /\ \A f \in FixedFields : r[f].text = "fixed"
  /\ r.maxBatchSize.kind = "finite"
  /\ r.optimalBatchSize.kind = "finite"
  /\ r.gpt35Comparison.promptSavings.text = "fixed"
  /\ r.gpt35Comparison.completionSavings.text = "fixed"

\* the positive values the number inputs of the model can hold
PositiveValues ==
  {x \in {OrZero(ParseFloat(v)) : v \in NumberInputValues} : Positive(x)}
ModelSizes == {OrZero(ParseFloat(v)) : v \in ControlValues.modelSize}

\* a stored integral number as an integer
IntOf(v) == v.sign * NToInt(v.abs)

C2_InvalidConfigError ==
  (pendingEffects = 0 /\ changes > 0 /\ NonPositiveInput(config))
    => outcome = "InvalidConfigError"

(***************************************************************************)
(* C3: a results record that holds NaN, Infinity or an undefined field is  *)
(* never stored: every field of a stored record is a finite number.        *)
(***************************************************************************)
C3_OnlyFiniteResults == results # Null => AllFinite(results)

(***************************************************************************)
(* C4: in every reachable state of the component config.gpuType is a key   *)
(* of gpuSpecs.                                                            *)
(***************************************************************************)
C4_GpuTypeIsKey == config.gpuType \in DOMAIN gpuSpecs

C4_Witness == changes > 0 /\ config.gpuType = H100 /\ Settled

(***************************************************************************)
(* C5: in every stored results record optimalBatchSize never exceeds 64    *)
(* and is Math.min(maxBatchSize, 64): 64 when maxBatchSize is larger       *)
(* (Infinity included), maxBatchSize itself otherwise.                     *)
(***************************************************************************)
C5_OptimalBatchAtMost64 ==
  results # Null =>
    LET m == results.maxBatchSize
        o == results.optimalBatchSize
    IN  /\ ~(o.kind = "Infinity" /\ o.sign = 1)
        /\ o.kind = "finite" => IntOf(o) <= 64
        /\ IF m.kind = "NaN" THEN o.kind = "NaN"
           ELSE IF (m.kind = "Infinity" /\ m.sign = 1)
                   \/ (m.kind = "finite" /\ NCmp(m.abs, <<64>>) > 0 /\ m.sign = 1)
                THEN o = [kind |-> "finite", sign |-> 1, abs |-> <<64>>]
                ELSE o = m

C5_Witness ==
  /\ Settled
  /\ results.maxBatchSize.kind = "finite"
  /\ results.maxBatchSize.sign = 1
  /\ NCmp(results.maxBatchSize.abs, <<64>>) > 0
  /\ results.optimalBatchSize = [kind |-> "finite", sign |-> 1, abs |-> <<64>>]

C7_MemoryUtilizationMonotone ==
  (Settled /\ ValidConfig(config)) =>
    LET gpu == gpuSpecs[config.gpuType]
        u == memoryUtilization(config, gpu)
    IN  /\ \A v \in PositiveValues :
             LET w == memoryUtilization([config EXCEPT !.sequenceLength = v], gpu)
             IN  IF JsLe(config.sequenceLength, v) THEN JsLe(u, w) ELSE JsLe(w, u)
        /\ \A v \in PositiveValues :
             LET w == memoryUtilization([config EXCEPT !.batchSize = v], gpu)
             IN  IF JsLe(config.batchSize, v) THEN JsLe(u, w) ELSE JsLe(w, u)
        /\ \A v \in ModelSizes :
             LET w == memoryUtilization([config EXCEPT !.modelSize = v], gpu)
             IN  IF JsLe(config.modelSize, v) THEN JsLe(u, w) ELSE JsLe(w, u)
        /\ \A v \in PositiveValues :
             LET w == memoryUtilization([config EXCEPT !.numGpus = v], gpu)
             IN  IF JsLe(config.numGpus, v) THEN JsLe(w, u) ELSE JsLe(u, w)

C7_Witness ==
  /\ Settled
  /\ ValidConfig(config)
  /\ JsEq(config.batchSize, JsInt(4))
  /\ JsLt(memoryUtilization([config EXCEPT !.batchSize = JsInt(1)], gpuSpecs[config.gpuType]),
          memoryUtilization(config, gpuSpecs[config.gpuType]))

(***************************************************************************)
(* C8: valid configs that differ only in batchSize and sequenceLength have *)
(* the same promptTokensPerSecond and the same promptProcessingTime.       *)
(***************************************************************************)
C8_PrefillIgnoresBatchAndSequence ==
  (Settled /\ ValidConfig(config)) =>
    LET gpu == gpuSpecs[config.gpuType]
        ownRate == promptTokensPerSecond(config, gpu)
        ownTime == promptProcessingTime(config, gpu)
    IN  \A b \in PositiveValues, q \in PositiveValues :
          LET other == [config EXCEPT !.batchSize = b, !.sequenceLength = q]
          IN  /\ JsEq(promptTokensPerSecond(other, gpu), ownRate)
              /\ JsEq(promptProcessingTime(other, gpu), ownTime)

C8_Witness ==
  /\ Settled
  /\ ValidConfig(config)
  /\ JsEq(config.batchSize, JsInt(4))
  /\ JsEq(config.sequenceLength, JsInt(256))
  /\ results.promptTokensPerSecond = firstResults.promptTokensPerSecond
  /\ results.promptProcessingTime = firstResults.promptProcessingTime

(***************************************************************************)
(* C9: for valid configs with batchSize, precision and gpuType the same,   *)
(* generationTokensPerSecond is strictly larger for a larger numGpus and   *)
(* strictly smaller for a larger modelSize.                                *)
(***************************************************************************)
C9_DecodeThroughputStrict ==
  (Settled /\ ValidConfig(config)) =>
    LET gpu == gpuSpecs[config.gpuType]
        g == generationTokensPerSecond(config, gpu)
    IN  /\ \A v \in PositiveValues :
             LET h == generationTokensPerSecond([config EXCEPT !.numGpus = v], gpu)
             IN  /\ JsLt(config.numGpus, v) => JsLt(g, h)
                 /\ JsLt(v, config.numGpus) => JsLt(h, g)
        /\ \A v \in ModelSizes :
             LET h == generationTokensPerSecond([config EXCEPT !.modelSize = v], gpu)
             IN  /\ JsLt(config.modelSize, v) => JsLt(h, g)
                 /\ JsLt(v, config.modelSize) => JsLt(g, h)

C9_Witness ==
  /\ Settled
  /\ ValidConfig(config)
  /\ JsEq(config.numGpus, JsInt(4))
  /\ JsEq(config.modelSize, JsInt(13))
  /\ JsLt(generationTokensPerSecond(InitialConfig, gpuSpecs[config.gpuType]),
          generationTokensPerSecond(config, gpuSpecs[config.gpuType]))

(***************************************************************************)
(* C10: weights memory in GB is modelSize * precision / 8: eight times the *)
(* weights memory is modelSize * precision, the stored field is that value *)
(* to one decimal, and 70 billion parameters at 16 bits give 140.0.        *)
(***************************************************************************)
C10_WeightsMemory ==
  Settled =>
    /\ JsEq(JsMul(JsInt(8), modelWeightsGB(config)),
            JsMul(config.modelSize, config.precision))
    /\ results.modelWeightsGB.text = "fixed"
    /\ 8 * NToInt(results.modelWeightsGB.digits)
         = 10 * NToInt(config.modelSize.n) * NToInt(config.precision.n)
    /\ (JsEq(config.modelSize, JsInt(70)) /\ JsEq(config.precision, JsInt(16)))
         => results.modelWeightsGB
              = [text |-> "fixed", neg |-> FALSE, digits |-> <<1400>>, places |-> 1]

C10_Witness ==
  /\ Settled
  /\ changes > 0
  /\ JsEq(config.modelSize, JsInt(13))
  /\ JsEq(config.precision, JsInt(32))
  /\ results.modelWeightsGB.digits = <<520>>

(***************************************************************************)
(* C11: the per-token KV cache in MB is 0.41 * (modelSize / 70) for every  *)
(* model size - 0.041 at 7, and 0.41 at 70, where the special-cased branch *)
(* agrees with the scaling formula - and the total KV cache in GB is       *)
(* perToken * sequenceLength * batchSize / 1024, which the stored field    *)
(* shows to two decimals.                                                  *)
(***************************************************************************)
C11_KvCacheLinear ==
  Settled =>
    LET scaled(size) == JsMul(JsDec(41, 2), JsDiv(size, JsInt(70)))
        perToken == kvCachePerTokenMB(config)
    IN  /\ \A size \in ModelSizes \cup {config.modelSize} :
             JsEq(kvCachePerTokenMB([config EXCEPT !.modelSize = size]), scaled(size))
        /\ JsEq(kvCachePerTokenMB([config EXCEPT !.modelSize = JsInt(7)]), JsDec(41, 3))
        /\ JsEq(kvCachePerTokenMB([config EXCEPT !.modelSize = JsInt(70)]), JsDec(41, 2))
        /\ JsEq(scaled(JsInt(70)), JsDec(41, 2))
        /\ JsEq(JsMul(kvCacheTotalGB(config), JsInt(1024)),
                JsMul(JsMul(perToken, config.sequenceLength), config.batchSize))
        /\ results.kvCacheTotalGB
             = ToFixed(JsDiv(JsMul(JsMul(scaled(config.modelSize), config.sequenceLength),
                                   config.batchSize), JsInt(1024)), 2)

C11_Witness ==
  /\ Settled
  /\ JsEq(config.modelSize, JsInt(7))
  /\ JsEq(kvCachePerTokenMB(config), JsDec(41, 3))
  /\ JsEq(config.sequenceLength, JsInt(2048))
  /\ results.kvCacheTotalGB = [text |-> "fixed", neg |-> FALSE, digits |-> <<8>>, places |-> 2]

(***************************************************************************)
(* C12: memoryUtilization is (weights memory + total KV-cache memory) /    *)
(* (gpu.memory * numGpus) * 100, stored to one decimal and not clamped, so *)
(* it exceeds 100 exactly when the total memory exceeds the aggregate      *)
(* device memory; for the initial config it is (140 + 0.82) / 160 * 100.   *)
(***************************************************************************)
C12_MemoryUtilization ==
  Settled =>
    LET gpu == gpuSpecs[config.gpuType]
        aggregate == JsMul(gpu.memory, config.numGpus)
        total == JsAdd(modelWeightsGB(config), kvCacheTotalGB(config))
        u == JsMul(JsDiv(total, aggregate), JsInt(100))
    IN  /\ results.memoryUtilization = ToFixed(u, 1)
        /\ JsLt(JsInt(100), memoryUtilization(config, gpu)) <=> JsLt(aggregate, total)
        /\ config = InitialConfig =>
             /\ JsEq(memoryUtilization(config, gpu),
                     JsMul(JsDiv(JsAdd(JsInt(140), JsDec(82, 2)), JsInt(160)), JsInt(100)))
             /\ results.memoryUtilization
                  = [text |-> "fixed", neg |-> FALSE, digits |-> <<880>>, places |-> 1]

(***************************************************************************)
(* C13: maxBatchSize is floor((gpu.memory * numGpus - weights memory) /    *)
(* (total KV cache / batchSize)): the stored number is that floor, which   *)
(* for a valid config is the integer m with m * perSequence <= free memory *)
(* < (m + 1) * perSequence, perSequence being the KV cache of one sequence *)
(* - and so maxBatchSize is the same for every batchSize.                  *)
(***************************************************************************)
C13_MaxBatchSize ==
  Settled =>
    LET gpu == gpuSpecs[config.gpuType]
        free == JsSub(JsMul(gpu.memory, config.numGpus), modelWeightsGB(config))
        perSequence == JsDiv(kvCacheTotalGB(config), config.batchSize)
        m == maxBatchSize(config, gpu)
    IN  /\ results.maxBatchSize = NumberValue(MathFloor(JsDiv(free, perSequence)))
        /\ ValidConfig(config) =>
             /\ results.maxBatchSize.kind = "finite"
             /\ JsEq(m, MathFloor(m))
             /\ JsLe(JsMul(m, perSequence), free)
             /\ JsLt(free, JsMul(JsAdd(m, JsInt(1)), perSequence))
             /\ \A b \in PositiveValues :
                  JsEq(maxBatchSize([config EXCEPT !.batchSize = b], gpu), m)

C13_Witness ==
  /\ Settled
  /\ ValidConfig(config)
  /\ JsEq(config.batchSize, JsInt(4))
  /\ changes = 1
  /\ results.maxBatchSize = [kind |-> "finite", sign |-> 1, abs |-> <<24>>]
  /\ firstResults.maxBatchSize = results.maxBatchSize

(***************************************************************************)
(* C14: when the KV-cache memory per unit of batch is zero, so that the    *)
(* division of line 120 is infinite or undefined, the stored maxBatchSize  *)
(* is an "unbounded" sentinel and neither Infinity nor NaN.                *)
(***************************************************************************)
C14_UnboundedSentinel ==
  LET perBatch == JsDiv(kvCacheTotalGB(config), config.batchSize)
  IN  (Settled /\ (IsZero(perBatch) \/ IsNaN(perBatch)))
        => /\ results.maxBatchSize.kind \notin {"Infinity", "NaN"}
           /\ results.maxBatchSize.kind = "unbounded"

\* parseFloat(s) > 0 and parseFloat(s) < 0 for a string s that toFixed made,
\* as in the className expressions of the comparison panel
ParsedPositive(t) ==
  \/ t.text = "Infinity"
  \/ t.text = "fixed" /\ ~t.neg /\ t.digits # <<>>
ParsedNegative(t) ==
  \/ t.text = "-Infinity"
  \/ t.text = "fixed" /\ t.neg /\ t.digits # <<>>

\* the unit costs of the current config
OwnPromptCostPer1k ==
  LET gpu == gpuSpecs[config.gpuType]
  IN  promptCostPer1k(config, costPerSecond(config), promptProcessingTime(config, gpu))
OwnCompletionCostPer1k ==
  LET gpu == gpuSpecs[config.gpuType]
  IN  completionCostPer1k(config, costPerSecond(config),
                          completionTime(config, generationTokensPerSecond(config, gpu)))

(***************************************************************************)
(* C15 (as stated): the savings percentage reported for each phase is      *)
(* (referencePrice - ownUnitCost) / referencePrice * 100 with reference    *)
(* prices 0.0015 and 0.002, and it is positive exactly when the own unit   *)
(* cost is below the reference price and negative exactly when it is above.*)
(***************************************************************************)
C15_SavingsSign ==
  Settled =>
    LET p == results.gpt35Comparison.promptSavings
        c == results.gpt35Comparison.completionSavings
    IN  /\ ParsedPositive(p) <=> JsLt(OwnPromptCostPer1k, JsDec(15, 4))
        /\ ParsedNegative(p) <=> JsLt(JsDec(15, 4), OwnPromptCostPer1k)
        /\ ParsedPositive(c) <=> JsLt(OwnCompletionCostPer1k, JsDec(2, 3))
        /\ ParsedNegative(c) <=> JsLt(JsDec(2, 3), OwnCompletionCostPer1k)

(***************************************************************************)
(* C15 (amended): the reported savings is (referencePrice - ownUnitCost) / *)
(* referencePrice * 100 rounded to one decimal.  The unrounded percentage  *)
(* is positive exactly when the own unit cost is below the reference price *)
(* and negative exactly when it is above; the reported one is positive     *)
(* only if the cost is below and negative only if it is above, and it is   *)
(* 0.0 or -0.0 instead when the unrounded percentage is within 0.05 of 0.  *)
(***************************************************************************)
C15_SavingsRounded ==
  Settled =>
    LET Phase(own, ref, raw, stored) ==
          LET pct == JsMul(JsDiv(JsSub(ref, own), ref), JsInt(100))
          IN  /\ stored = ToFixed(pct, 1)
              /\ IsNaN(own) \/ JsEq(raw, pct)
              /\ JsLt(JsZero(1), raw) <=> JsLt(own, ref)
              /\ JsLt(raw, JsZero(1)) <=> JsLt(ref, own)
              /\ ParsedPositive(stored) => JsLt(own, ref)
              /\ ParsedNegative(stored) => JsLt(ref, own)
              /\ (JsLt(own, ref) /\ ~ParsedPositive(stored)) => JsLt(raw, JsDec(5, 2))
              /\ (JsLt(ref, own) /\ ~ParsedNegative(stored)) => JsLt(JsNeg(JsDec(5, 2)), raw)
    IN  /\ Phase(OwnPromptCostPer1k, JsDec(15, 4),
                 promptSavings(OwnPromptCostPer1k),
                 results.gpt35Comparison.promptSavings)
        /\ Phase(OwnCompletionCostPer1k, JsDec(2, 3),
                 completionSavings(OwnCompletionCostPer1k),
                 results.gpt35Comparison.completionSavings)

\* a prompt cost just below the reference price is reported as 0.0
C15_Witness ==
  /\ Settled
  /\ JsLt(OwnPromptCostPer1k, gpt35PromptCost)
  /\ results.gpt35Comparison.promptSavings
       = [text |-> "fixed", neg |-> FALSE, digits |-> <<>>, places |-> 1]
  /\ ParsedNegative(results.gpt35Comparison.completionSavings)

(***************************************************************************)
(* C16: every handleInputChange call makes React owe a run of the effect,  *)
(* and when none is owed the stored results are the estimate of the        *)
(* current config; while no change has been made the stored record is the  *)
(* estimate of the initial config; and time and again no run is owed and   *)
(* results is a record: every owed run happens, and results, null at       *)
(* first, eventually is not.                                               *)
(***************************************************************************)
C16_RecomputeOnChange ==
  /\ [][changes' # changes => pendingEffects' > 0]_vars
  /\ [](pendingEffects = 0 =>
          /\ outcome = "stored"
          /\ results = calculateInference(config).results)
  /\ [](changes = 0 /\ results # Null =>
          results = calculateInference(InitialConfig).results)
  /\ []<>(pendingEffects = 0 /\ results # Null)

\* the results of the latest of several changes, not those of an earlier config
C16_Witness ==
  /\ Settled
  /\ changes = MaxChanges
  /\ config # InitialConfig
  /\ results = calculateInference(config).results
  /\ results # firstResults

\* costPerSecond * totalTime of the current config, in dollars
OwnTotalCost ==
  LET gpu == gpuSpecs[config.gpuType]
      promptTime == promptProcessingTime(config, gpu)
      complTime == completionTime(config, generationTokensPerSecond(config, gpu))
  IN  JsMul(costPerSecond(config), JsAdd(promptTime, complTime))

(***************************************************************************)
(* C17: the totalCost field of the stored record is the total request cost *)
(* costPerSecond * totalTime, a dollar amount, expressed in cents: the     *)
(* dollar amount times 100 (to the three decimals of the field).           *)
(***************************************************************************)
C17_TotalCostInCents ==
  Settled => results.totalCost = ToFixed(JsMul(OwnTotalCost, JsInt(100)), 3)

NumericFields == Fields \ {"gpuType"}

\* a JavaScript number, as opposed to a string
IsNumber(x) == x \in [s : {1, -1}, n : Seq(Nat), d : Seq(Nat)]

(***************************************************************************)
(* C18: whatever strings handleInputChange is called with, every numeric   *)
(* field of config holds a number that is not NaN; a call changes at most  *)
(* the field it names, and a numeric field it names becomes                *)
(* parseFloat(value) if that is a number other than zero, and 0 if not.    *)
(***************************************************************************)
C18_NumericFieldsHoldNumbers ==
  /\ [](\A f \in NumericFields : IsNumber(config[f]) /\ ~IsNaN(config[f]))
  /\ [][changes' # changes =>
          \E field \in Fields :
            /\ \A other \in Fields \ {field} : config'[other] = config[other]
            /\ field \in NumericFields =>
                 \E value \in AnyStrings :
                   LET parsed == ParseFloat(value)
                   IN  config'[field] = IF ~IsNaN(parsed) /\ ~IsZero(parsed)
                                        THEN parsed
                                        ELSE JsZero(1)]_vars

\* an unparsable string has left 0 in one field, "-Infinity" a number in another
C18_Witness ==
  /\ changes = 2
  /\ config.batchSize = JsZero(1)
  /\ IsInf(config.sequenceLength)
  /\ config.gpuType = A100

(***************************************************************************)
(* C19 (as stated): for every valid config (all sizes and counts           *)
(* positive), in exact arithmetic, batchSize is at most maxBatchSize if    *)
(* and only if memoryUtilization is at most 100.                           *)
(***************************************************************************)
C19_FeasibleIffWithinMaxBatch ==
  (Settled /\ ValidConfig(config)) =>
    LET gpu == gpuSpecs[config.gpuType]
    IN  JsLe(config.batchSize, maxBatchSize(config, gpu))
          <=> JsLe(memoryUtilization(config, gpu), JsInt(100))

(***************************************************************************)
(* C19 (amended): the equivalence holds for every valid config whose       *)
(* batchSize is a whole number; for any valid config batchSize at most     *)
(* maxBatchSize still implies memoryUtilization at most 100.               *)
(***************************************************************************)
C19_FeasibleIffBatchFits ==
  (Settled /\ ValidConfig(config)) =>
    LET gpu == gpuSpecs[config.gpuType]
        fits == JsLe(config.batchSize, maxBatchSize(config, gpu))
        feasible == JsLe(memoryUtilization(config, gpu), JsInt(100))
    IN  /\ fits => feasible
        /\ JsEq(config.batchSize, MathFloor(config.batchSize)) => (feasible => fits)

\* the weights fit, the configured batch does not, and utilization says so
C19_Witness ==
  /\ Settled
  /\ ValidConfig(config)
  /\ JsEq(config.batchSize, JsInt(256))
  /\ JsLt(modelWeightsGB(config), totalGpuMemory(config, gpuSpecs[config.gpuType]))
  /\ results.maxBatchSize = [kind |-> "finite", sign |-> 1, abs |-> <<24>>]
  /\ JsLt(JsInt(100), memoryUtilization(config, gpuSpecs[config.gpuType]))

(***************************************************************************)
(* C20: valid configs that differ only in numGpus, promptTokens and        *)
(* completionTokens have the same promptCostPer1k and the same             *)
(* completionCostPer1k.                                                    *)
(***************************************************************************)
C20_UnitCostsIgnoreGpusAndTokens ==
  (Settled /\ ValidConfig(config)) =>
    LET gpu == gpuSpecs[config.gpuType]
        PromptUnit(c) ==
          promptCostPer1k(c, costPerSecond(c), promptProcessingTime(c, gpu))
        CompletionUnit(c) ==
          completionCostPer1k(c, costPerSecond(c),
                              completionTime(c, generationTokensPerSecond(c, gpu)))
        ownPrompt == PromptUnit(config)
        ownCompletion == CompletionUnit(config)
    IN  \A g \in PositiveValues, p \in PositiveValues, q \in PositiveValues :
          LET other == [config EXCEPT !.numGpus = g, !.promptTokens = p,
                                      !.completionTokens = q]
          IN  /\ JsEq(PromptUnit(other), ownPrompt)
              /\ JsEq(CompletionUnit(other), ownCompletion)

\* more devices and a shorter prompt: another total cost, the same unit costs
C20_Witness ==
  /\ Settled
  /\ ValidConfig(config)
  /\ JsEq(config.numGpus, JsInt(4))
  /\ JsEq(config.promptTokens, JsInt(256))
  /\ results.promptCostPer1k = firstResults.promptCostPer1k
  /\ results.completionCostPer1k = firstResults.completionCostPer1k
  /\ results.totalCost # firstResults.totalCost
====
